---- MODULE Spec2Model ----
(***************************************************************************)
(* Two independent programs of the repository:                             *)
(*   - Stock_Prices_Analysis_MCP/stock_price_server.py, a tool server with *)
(*     get_stock_price, stock_resource, get_stock_history, compare_stocks; *)
(*   - LocalOCR_Application_SmolDocling/app.py, a Streamlit script whose   *)
(*     main() is re-run for every interaction.                             *)
(* The market-data provider (yfinance) and the model libraries are the     *)
(* environment: every call into them draws its outcome from a small set.   *)
(*                                                                         *)
(* Prices are Python floats.  A float is modelled as [tag, v]: tag "num"   *)
(* with v the value counted in eighths of a dollar (k/8 is exact in binary *)
(* floating point, so comparison and rounding are exact), or tag "nan".    *)
(* Values that are not floats: tag "none" (Python None) and tag "obj" (an  *)
(* object float() rejects with TypeError/ValueError).                      *)
(***************************************************************************)
EXTENDS Integers, Sequences, FiniteSets, TLC

\* ------------------------------------------------------------------ bounds
\* Longest daily series the provider returns in the model.
MaxRows == 2
\* Script runs of the Streamlit application that are followed.
MaxRuns == 3

\* ------------------------------------------------------------------ values
Num(n) == [tag |-> "num", v |-> n]
NaN == [tag |-> "nan", v |-> 0]
None == [tag |-> "none", v |-> 0]
Obj == [tag |-> "obj", v |-> 0]

\* -1.0, the value of lines 28 and 31 (8 eighths below zero).
Sentinel == Num(0 - 8)
Zero == Num(0)

\* Python float comparison: every comparison with nan is False.
FloatLt(a, b) == a.tag = "num" /\ b.tag = "num" /\ a.v < b.v
FloatGt(a, b) == a.tag = "num" /\ b.tag = "num" /\ a.v > b.v
FloatEq(a, b) == a.tag = "num" /\ b.tag = "num" /\ a.v = b.v
FloatGe(a, b) == a.tag = "num" /\ b.tag = "num" /\ a.v >= b.v

\* float(x): a float is returned as it is, None and other objects raise.
ToFloat(x) == [exc |-> x.tag \notin {"num", "nan"}, val |-> x]

\* Closing prices a daily bar may carry, and values of info["regularMarketPrice"].
Closes == {Num(0 - 16), Num(0), Num(9), NaN}
Quotes == {None, Obj, Num(0 - 16), Num(0), Num(10), NaN}

Symbols == {"AAPL", "MSFT"}

\* ---------------------------------------------------------------- strings
\* A string built by an f-string is the sequence of its pieces: the literal
\* text, an interpolated str, a float formatted with :.2f, a CSV row.
Lit(s) == [k |-> "lit", s |-> s, n |-> 0]
Str(s) == [k |-> "str", s |-> s, n |-> 0]

\* Round k/8 dollars to cents, ties to even (what :.2f prints for a binary
\* float that is exactly k/8): 25k/2 cents.
RoundCents(k) ==
    LET twice == 25 * k
        q == twice \div 2
    IN IF twice % 2 = 0 THEN q
       ELSE IF q % 2 = 0 THEN q ELSE q + 1

\* f"{price:.2f}"
Fmt2(f) ==
    IF f.tag = "nan" THEN [k |-> "f2", s |-> "nan", n |-> 0]
    ELSE [k |-> "f2", s |-> "", n |-> RoundCents(f.v)]

BeginsWith(m, word) == Len(m) > 0 /\ m[1].k = "lit" /\ m[1].s = word
Contains(m, s) == \E i \in 1..Len(m) : m[i].k = "str" /\ m[i].s = s
Texts(m) == {m[i].s : i \in {j \in 1..Len(m) : m[j].k = "lit"}}

\* --------------------------------------------------------- provider events
Ev(name, symbol, period) == [ev |-> name, sym |-> symbol, period |-> period]

\* ------------------------------------------------ provider answers (yfinance)
\* What the provider does during one get_stock_price call: whether
\* yf.Ticker(symbol) or ticker.history(period="1d") raises, the Close column
\* of the returned frame, whether reading data['Close'].iloc[-1] raises,
\* whether ticker.info raises, and info.get("regularMarketPrice", None).
Datas == UNION {[1..n -> Closes] : n \in 0..MaxRows}

PriceAnswers ==
    {r \in [tickerRaises : BOOLEAN, histRaises : BOOLEAN, data : Datas,
            closeRaises : BOOLEAN, infoRaises : BOOLEAN, rmp : Quotes] :
        \/ r.tickerRaises /\ ~r.histRaises /\ r.data = <<>> /\ ~r.closeRaises
              /\ ~r.infoRaises /\ r.rmp = None
        \/ ~r.tickerRaises /\ r.histRaises /\ r.data = <<>> /\ ~r.closeRaises
              /\ ~r.infoRaises /\ r.rmp = None
        \/ ~r.tickerRaises /\ ~r.histRaises /\ r.data # <<>>
              /\ ~r.infoRaises /\ r.rmp \in {None, Num(10)}
        \/ ~r.tickerRaises /\ ~r.histRaises /\ r.data = <<>> /\ ~r.closeRaises
              /\ (r.infoRaises => r.rmp = None)}

NoAnswer ==
    [tickerRaises |-> FALSE, histRaises |-> FALSE, data |-> <<>>,
     closeRaises |-> FALSE, infoRaises |-> FALSE, rmp |-> None]

\* What the provider does during one get_stock_history call.
HistoryAnswers ==
    {r \in [tickerRaises : BOOLEAN, histRaises : BOOLEAN, data : Datas,
            csvRaises : BOOLEAN] :
        /\ (r.tickerRaises \/ r.histRaises) => (r.data = <<>> /\ ~r.csvRaises)
        /\ ~(r.tickerRaises /\ r.histRaises)
        /\ r.csvRaises => r.data # <<>>}

NoHistoryAnswer ==
    [tickerRaises |-> FALSE, histRaises |-> FALSE, data |-> <<>>,
     csvRaises |-> FALSE]

\* The period argument of a get_stock_history call; "omitted" takes the
\* default of the signature.
PeriodArgs == {"omitted", "1mo", "1y", "bogus"}
DefaultPeriod == "1mo"

\* ------------------------------------------------------------ get_stock_price
\* The try block with line 25 as `if price:`, which takes a quoted 0 for a
\* missing price.
TryBodyTruthy(symbol, r) ==
    IF r.tickerRaises
    THEN [exc |-> TRUE, val |-> None, events |-> <<Ev("Ticker", symbol, "")>>]
    ELSE IF r.histRaises
    THEN [exc |-> TRUE, val |-> None,
          events |-> <<Ev("Ticker", symbol, ""), Ev("history", symbol, "1d")>>]
    ELSE IF r.data # <<>>
    THEN [exc |-> r.closeRaises \/ ToFloat(r.data[Len(r.data)]).exc,
          val |-> IF r.closeRaises THEN None ELSE r.data[Len(r.data)],
          events |-> <<Ev("Ticker", symbol, ""), Ev("history", symbol, "1d")>>]
    ELSE IF r.infoRaises
    THEN [exc |-> TRUE, val |-> None,
          events |-> <<Ev("Ticker", symbol, ""), Ev("history", symbol, "1d"),
                       Ev("info", symbol, "")>>]
    ELSE [exc |-> r.rmp # None /\ r.rmp # Zero /\ ToFloat(r.rmp).exc,
          val |-> IF r.rmp # None /\ r.rmp # Zero /\ ~ToFloat(r.rmp).exc
                  THEN ToFloat(r.rmp).val ELSE Sentinel,
          events |-> <<Ev("Ticker", symbol, ""), Ev("history", symbol, "1d"),
                       Ev("info", symbol, "")>>]

\* The try block, lines 14-28: [exc, val, events].  exc says a statement
\* raised an Exception, val is the value returned otherwise, events are the
\* calls into the provider.
TryBody(symbol, r) ==
    \* 14: ticker = yf.Ticker(symbol)
    IF r.tickerRaises
    THEN [exc |-> TRUE, val |-> None, events |-> <<Ev("Ticker", symbol, "")>>]
    \* 16: data = ticker.history(period="1d")
    ELSE IF r.histRaises
    THEN [exc |-> TRUE, val |-> None,
          events |-> <<Ev("Ticker", symbol, ""), Ev("history", symbol, "1d")>>]
    \* 17-20: if not data.empty: return float(data['Close'].iloc[-1])
    ELSE IF r.data # <<>>
    THEN [exc |-> r.closeRaises \/ ToFloat(r.data[Len(r.data)]).exc,
          val |-> IF r.closeRaises THEN None ELSE r.data[Len(r.data)],
          events |-> <<Ev("Ticker", symbol, ""), Ev("history", symbol, "1d")>>]
    \* 23: info = ticker.info
    ELSE IF r.infoRaises
    THEN [exc |-> TRUE, val |-> None,
          events |-> <<Ev("Ticker", symbol, ""), Ev("history", symbol, "1d"),
                       Ev("info", symbol, "")>>]
    \* 24-28: price = info.get(...); float(price) if price is not None else -1.0
    ELSE [exc |-> r.rmp # None /\ ToFloat(r.rmp).exc,
          val |-> IF r.rmp # None /\ ~ToFloat(r.rmp).exc
                  THEN ToFloat(r.rmp).val ELSE Sentinel,
          events |-> <<Ev("Ticker", symbol, ""), Ev("history", symbol, "1d"),
                       Ev("info", symbol, "")>>]

\* get_stock_price with an except clause that catches the provider's errors
\* only: a KeyError, TypeError or ValueError of lines 19-26 leaves the function.
GetStockPriceNarrowExcept(symbol, r) ==
    LET b == TryBody(symbol, r)
        caught == b.exc /\ (r.tickerRaises \/ r.histRaises \/ r.infoRaises)
    IN [ret |-> IF b.exc THEN (IF caught THEN Sentinel ELSE None) ELSE b.val,
        escaped |-> b.exc /\ ~caught,
        events |-> <<Ev("get_stock_price", symbol, "")>> \o b.events
                      \o <<Ev(IF b.exc /\ ~caught THEN "raise" ELSE "return",
                              symbol, "")>>]

\* The function with its except clause: [ret, escaped, events].  escaped says
\* an exception left the function (then ret is not a return value).
GetStockPrice(symbol, r) ==
    LET b == TryBody(symbol, r)
    IN \* 29-31: except Exception: return -1.0
       [ret |-> IF b.exc THEN Sentinel ELSE b.val,
        escaped |-> FALSE,
        events |-> <<Ev("get_stock_price", symbol, "")>> \o b.events
                      \o <<Ev("return", symbol, "")>>]

\* ------------------------------------------------------------- handler results
Fault == [fault |-> TRUE, kind |-> "none", f |-> None, s |-> <<>>]
RetFloat(x) == [fault |-> FALSE, kind |-> "float", f |-> x, s |-> <<>>]
RetStr(m) == [fault |-> FALSE, kind |-> "str", f |-> None, s |-> m]
NoResult == [fault |-> FALSE, kind |-> "none", f |-> None, s |-> <<>>]

\* ------------------------------------------------------------- stock_resource
ResourceError(symbol) ==
    <<Lit("Error:"), Lit(" Could not retrieve price for symbol '"), Str(symbol),
      Lit("'.")>>
ResourcePrice(symbol, price) ==
    <<Lit("The current price of '"), Str(symbol), Lit("' is $"), Fmt2(price),
      Lit(".")>>

\* Lines 39-42, given the outcome of the call of line 39.
StockResource(symbol, out) ==
    IF out.escaped THEN Fault
    ELSE IF FloatLt(out.ret, Zero) THEN RetStr(ResourceError(symbol))
    ELSE RetStr(ResourcePrice(symbol, out.ret))

\* ---------------------------------------------------------- get_stock_history
NoDataMessage(symbol, period) ==
    <<Lit("No historical data found for symbol '"), Str(symbol),
      Lit("' with period '"), Str(period), Lit("'.")>>
HistoryError(text) ==
    <<Lit("Error fetching historical data: "), Str(text)>>
CsvHeader == Lit("Date,Open,High,Low,Close,Volume,Dividends,Stock Splits")
ToCsv(data) ==
    <<CsvHeader>> \o [i \in 1..Len(data) |->
                         [k |-> "row", s |-> data[i].tag, n |-> data[i].v]]

\* get_stock_history asking the provider for the default period whatever the
\* caller gave.
GetStockHistoryDefaultOnly(symbol, period, r) ==
    IF r.tickerRaises
    THEN [ret |-> RetStr(HistoryError("ticker")),
          events |-> <<Ev("Ticker", symbol, "")>>]
    ELSE IF r.histRaises
    THEN [ret |-> RetStr(HistoryError("history")),
          events |-> <<Ev("Ticker", symbol, ""),
                       Ev("history", symbol, DefaultPeriod)>>]
    ELSE IF r.data = <<>>
    THEN [ret |-> RetStr(NoDataMessage(symbol, period)),
          events |-> <<Ev("Ticker", symbol, ""),
                       Ev("history", symbol, DefaultPeriod)>>]
    ELSE IF r.csvRaises
    THEN [ret |-> RetStr(HistoryError("to_csv")),
          events |-> <<Ev("Ticker", symbol, ""),
                       Ev("history", symbol, DefaultPeriod)>>]
    ELSE [ret |-> RetStr(ToCsv(r.data)),
          events |-> <<Ev("Ticker", symbol, ""),
                       Ev("history", symbol, DefaultPeriod)>>]

\* Lines 54-63: [ret, events]; period is the value of the parameter.
GetStockHistory(symbol, period, r) ==
    \* 55: ticker = yf.Ticker(symbol)
    IF r.tickerRaises
    THEN [ret |-> RetStr(HistoryError("ticker")),
          events |-> <<Ev("Ticker", symbol, "")>>]
    \* 56: data = ticker.history(period=period)
    ELSE IF r.histRaises
    THEN [ret |-> RetStr(HistoryError("history")),
          events |-> <<Ev("Ticker", symbol, ""), Ev("history", symbol, period)>>]
    \* 57-58: if data.empty: return the message
    ELSE IF r.data = <<>>
    THEN [ret |-> RetStr(NoDataMessage(symbol, period)),
          events |-> <<Ev("Ticker", symbol, ""), Ev("history", symbol, period)>>]
    \* 60-61: return data.to_csv()
    ELSE IF r.csvRaises
    THEN [ret |-> RetStr(HistoryError("to_csv")),
          events |-> <<Ev("Ticker", symbol, ""), Ev("history", symbol, period)>>]
    ELSE [ret |-> RetStr(ToCsv(r.data)),
          events |-> <<Ev("Ticker", symbol, ""), Ev("history", symbol, period)>>]

\* -------------------------------------------------------------- compare_stocks
CompareError(symbol1, symbol2) ==
    <<Lit("Error:"), Lit(" Could not retrieve data for comparison of '"),
      Str(symbol1), Lit("' and '"), Str(symbol2), Lit("'.")>>
Higher(symbol1, price1, symbol2, price2) ==
    <<Str(symbol1), Lit(" ($"), Fmt2(price1), Lit(") is higher than "),
      Str(symbol2), Lit(" ($"), Fmt2(price2), Lit(").")>>
Lower(symbol1, price1, symbol2, price2) ==
    <<Str(symbol1), Lit(" ($"), Fmt2(price1), Lit(") is lower than "),
      Str(symbol2), Lit(" ($"), Fmt2(price2), Lit(").")>>
SamePrice(symbol1, price1, symbol2) ==
    <<Lit("Both "), Str(symbol1), Lit(" and "), Str(symbol2),
      Lit(" have the same price ($"), Fmt2(price1), Lit(").")>>

\* Lines 77-85, given the two prices of lines 75 and 76.
CompareResult(symbol1, p1, symbol2, p2) ==
    IF FloatLt(p1, Zero) \/ FloatLt(p2, Zero)
    THEN CompareError(symbol1, symbol2)
    ELSE IF FloatGt(p1, p2) THEN Higher(symbol1, p1, symbol2, p2)
    ELSE IF FloatLt(p1, p2) THEN Lower(symbol1, p1, symbol2, p2)
    ELSE SamePrice(symbol1, p1, symbol2)

\* ================================================================ tool server
\* The server handles one request at a time.  mpc is "idle" between requests,
\* names the next line of compare_stocks while one is being handled, and is
\* "done" when the handler has returned and the reply is not yet sent.
VARIABLES
    mpc,      \* "idle", "line75", "line76", "line77", "done"
    op,       \* the operation of the current or last request
    args,     \* its arguments [symbol1, symbol2, period]
    answer,   \* the provider's answer to the last get_stock_price call
    hanswer,  \* the provider's answer to the last get_stock_history call
    price1,   \* compare_stocks' local price1 (None while unbound)
    price2,   \* compare_stocks' local price2 (None while unbound)
    result,   \* what the last finished request returned
    log       \* the calls made while handling the current or last request

marketVars == <<mpc, op, args, answer, hanswer, price1, price2, result, log>>

\* The state of the document OCR front-end (its operations are further down).
VARIABLES
    apc,            \* "idle" or the next line of main(): line81, line91, line96, line99
    runs,           \* script runs started so far
    uploaded,       \* uploaded_file of the current run
    outcome,        \* what the libraries did in ocr_pipeline in this run
    ocrResult,      \* main's local result
    imagePane,      \* col1 shows the uploaded image
    textPane,       \* col2: [shown, body]
    download,       \* the download button: [offered, data]
    fault,          \* the exception that ended the run: "none", "decode", "pipeline"
    steps,          \* the steps of this run, in order
    cache,          \* st.cache_resource's entry for load_model
    processorLoads, \* AutoProcessor.from_pretrained calls of the process
    modelLoads      \* AutoModelForVision2Seq.from_pretrained calls of the process

ocrVars ==
    <<apc, runs, uploaded, outcome, ocrResult, imagePane, textPane, download,
      fault, steps, cache, processorLoads, modelLoads>>

vars == <<marketVars, ocrVars>>

MarketInit ==
    /\ mpc = "idle"
    /\ op = "none"
    /\ args = [symbol1 |-> "", symbol2 |-> "", period |-> ""]
    /\ answer = NoAnswer
    /\ hanswer = NoHistoryAnswer
    /\ price1 = None
    /\ price2 = None
    /\ result = NoResult
    /\ log = <<>>

\* A caller invokes the tool get_stock_price(symbol).
CallGetStockPrice ==
    /\ mpc = "idle"
    /\ \E symbol \in Symbols, r \in PriceAnswers :
          LET out == GetStockPrice(symbol, r)
          IN /\ op' = "get_stock_price"
             /\ args' = [symbol1 |-> symbol, symbol2 |-> "", period |-> ""]
             /\ answer' = r
             /\ result' = IF out.escaped THEN Fault ELSE RetFloat(out.ret)
             /\ log' = out.events
    /\ mpc' = "done"
    /\ UNCHANGED <<hanswer, price1, price2>>
    /\ UNCHANGED ocrVars

\* A caller reads the resource stock://{symbol}.
CallStockResource ==
    /\ mpc = "idle"
    /\ \E symbol \in Symbols, r \in PriceAnswers :
          LET out == GetStockPrice(symbol, r)
          IN /\ op' = "stock_resource"
             /\ args' = [symbol1 |-> symbol, symbol2 |-> "", period |-> ""]
             /\ answer' = r
             /\ price1' = IF out.escaped THEN None ELSE out.ret
             /\ result' = StockResource(symbol, out)
             /\ log' = out.events
    /\ mpc' = "done"
    /\ UNCHANGED <<hanswer, price2>>
    /\ UNCHANGED ocrVars

\* A caller invokes the tool get_stock_history(symbol, period) or
\* get_stock_history(symbol).
CallGetStockHistory ==
    /\ mpc = "idle"
    /\ \E symbol \in Symbols, p \in PeriodArgs, r \in HistoryAnswers :
          LET period == IF p = "omitted" THEN DefaultPeriod ELSE p
              out == GetStockHistory(symbol, period, r)
          IN /\ op' = "get_stock_history"
             /\ args' = [symbol1 |-> symbol, symbol2 |-> "", period |-> period]
             /\ hanswer' = r
             /\ result' = out.ret
             /\ log' = out.events
    /\ mpc' = "done"
    /\ UNCHANGED <<answer, price1, price2>>
    /\ UNCHANGED ocrVars

\* A caller invokes the tool compare_stocks(symbol1, symbol2).
CallCompareStocks ==
    /\ mpc = "idle"
    /\ \E symbol1 \in Symbols, symbol2 \in Symbols :
          args' = [symbol1 |-> symbol1, symbol2 |-> symbol2, period |-> ""]
    /\ op' = "compare_stocks"
    /\ mpc' = "line75"
    /\ UNCHANGED <<answer, hanswer, price1, price2, result, log>>
    /\ UNCHANGED ocrVars

\* 75: price1 = get_stock_price(symbol1)
CompareLine75 ==
    /\ mpc = "line75"
    /\ \E r \in PriceAnswers :
          LET out == GetStockPrice(args.symbol1, r)
          IN /\ answer' = r
             /\ log' = log \o out.events
             /\ IF out.escaped
                THEN mpc' = "done" /\ result' = Fault /\ price1' = price1
                ELSE mpc' = "line76" /\ result' = result /\ price1' = out.ret
    /\ UNCHANGED <<op, args, hanswer, price2>>
    /\ UNCHANGED ocrVars

\* 76: price2 = get_stock_price(symbol2), skipped when price1 is negative.
CompareLine76ShortCircuit ==
    /\ mpc = "line76"
    /\ IF FloatLt(price1, Zero)
       THEN /\ price2' = Sentinel
            /\ mpc' = "line77"
            /\ UNCHANGED <<answer, log, result>>
       ELSE \E r \in PriceAnswers :
              LET out == GetStockPrice(args.symbol2, r)
              IN /\ answer' = r
                 /\ log' = log \o out.events
                 /\ IF out.escaped
                    THEN mpc' = "done" /\ result' = Fault /\ price2' = price2
                    ELSE mpc' = "line77" /\ result' = result /\ price2' = out.ret
    /\ UNCHANGED <<op, args, hanswer, price1>>
    /\ UNCHANGED ocrVars

\* 76: price2 = get_stock_price(symbol2)
CompareLine76 ==
    /\ mpc = "line76"
    /\ \E r \in PriceAnswers :
          LET out == GetStockPrice(args.symbol2, r)
          IN /\ answer' = r
             /\ log' = log \o out.events
             /\ IF out.escaped
                THEN mpc' = "done" /\ result' = Fault /\ price2' = price2
                ELSE mpc' = "line77" /\ result' = result /\ price2' = out.ret
    /\ UNCHANGED <<op, args, hanswer, price1>>
    /\ UNCHANGED ocrVars

\* 77-85: the error string or the comparison sentence is returned.
CompareLine77 ==
    /\ mpc = "line77"
    /\ result' = RetStr(CompareResult(args.symbol1, price1, args.symbol2, price2))
    /\ mpc' = "done"
    /\ UNCHANGED <<op, args, answer, hanswer, price1, price2, log>>
    /\ UNCHANGED ocrVars

\* The return value goes back to the caller and the handler's frame is gone.
Respond ==
    /\ mpc = "done"
    /\ mpc' = "idle"
    /\ op' = "none"
    /\ args' = [symbol1 |-> "", symbol2 |-> "", period |-> ""]
    /\ answer' = NoAnswer
    /\ hanswer' = NoHistoryAnswer
    /\ price1' = None
    /\ price2' = None
    /\ result' = NoResult
    /\ log' = <<>>
    /\ UNCHANGED ocrVars

MarketNext ==
    \/ CallGetStockPrice
    \/ CallStockResource
    \/ CallGetStockHistory
    \/ CallCompareStocks
    \/ CompareLine75
    \/ CompareLine76
    \/ CompareLine77
    \/ Respond

\* ======================================================= document OCR front-end
\* Streamlit runs the script, and so main(), once per interaction of the
\* session.  The transformers and docling libraries are the environment.
Uploads == {"none", "image", "corrupt"}
PipelineOutcomes ==
    {"processor_load_fails", "model_load_fails", "generate_fails",
     "parse_fails", "ok"}
Markdowns == {"", "# Title", "plain text"}

\* load_model, lines 58-65, under st.cache_resource: the first call loads
\* the processor and the model, later calls return the cached pair.  Given
\* [cached, processorLoads, modelLoads], the state after one call.  No line
\* of the script calls load_model, so no action below uses it and the
\* variable cache keeps its initial value.
load_model(c) ==
    IF c.cached THEN c
    ELSE [cached |-> TRUE, processorLoads |-> c.processorLoads + 1,
          modelLoads |-> c.modelLoads + 1]

\* ocr_pipeline, lines 20-55, given what the libraries do and the text
\* export_to_markdown would give: [exc, val, processorLoads, modelLoads],
\* the last two counting the from_pretrained calls of lines 22 and 23.
ocr_pipeline(libs, md) ==
    IF libs = "processor_load_fails"
    THEN [exc |-> TRUE, val |-> "", processorLoads |-> 1, modelLoads |-> 0]
    ELSE IF libs \in {"model_load_fails", "generate_fails", "parse_fails"}
    THEN [exc |-> TRUE, val |-> "", processorLoads |-> 1, modelLoads |-> 1]
    ELSE [exc |-> FALSE, val |-> md, processorLoads |-> 1, modelLoads |-> 1]

OcrInit ==
    /\ apc = "idle"
    /\ runs = 0
    /\ uploaded = "none"
    /\ outcome = "none"
    /\ ocrResult = ""
    /\ imagePane = FALSE
    /\ textPane = [shown |-> FALSE, body |-> ""]
    /\ download = [offered |-> FALSE, data |-> ""]
    /\ fault = "none"
    /\ steps = <<>>
    /\ cache = FALSE
    /\ processorLoads = 0
    /\ modelLoads = 0

\* 68-77: a script run starts; the page of the previous run is replaced.
\* Without an uploaded file the run ends here.
ScriptRun ==
    /\ apc = "idle"
    /\ runs < MaxRuns
    /\ runs' = runs + 1
    /\ \E f \in Uploads :
          /\ uploaded' = f
          /\ apc' = IF f = "none" THEN "idle" ELSE "line81"
    /\ outcome' = "none"
    /\ ocrResult' = ""
    /\ imagePane' = FALSE
    /\ textPane' = [shown |-> FALSE, body |-> ""]
    /\ download' = [offered |-> FALSE, data |-> ""]
    /\ fault' = "none"
    /\ steps' = <<>>
    /\ UNCHANGED <<cache, processorLoads, modelLoads>>
    /\ UNCHANGED marketVars

\* 81-88: the bytes are read, decoded and shown; a failure ends the run.
DecodeImage ==
    /\ apc = "line81"
    /\ steps' = Append(steps, "decode")
    /\ IF uploaded = "corrupt"
       THEN apc' = "idle" /\ fault' = "decode" /\ imagePane' = imagePane
       ELSE apc' = "line91" /\ fault' = fault /\ imagePane' = TRUE
    /\ UNCHANGED <<runs, uploaded, outcome, ocrResult, textPane, download,
                   cache, processorLoads, modelLoads>>
    /\ UNCHANGED marketVars

\* 91, with a failure of the pipeline shown as empty text.
RunPipelineSwallow ==
    /\ apc = "line91"
    /\ steps' = Append(steps, "pipeline")
    /\ \E o \in PipelineOutcomes, md \in Markdowns :
          LET r == ocr_pipeline(o, md)
          IN /\ outcome' = o
             /\ processorLoads' = processorLoads + r.processorLoads
             /\ modelLoads' = modelLoads + r.modelLoads
             /\ ocrResult' = r.val
             /\ apc' = "line96"
             /\ fault' = fault
    /\ UNCHANGED <<runs, uploaded, imagePane, textPane, download, cache>>
    /\ UNCHANGED marketVars

\* 91: result = ocr_pipeline(image); a failure ends the run.
RunPipeline ==
    /\ apc = "line91"
    /\ steps' = Append(steps, "pipeline")
    /\ \E o \in PipelineOutcomes, md \in Markdowns :
          LET r == ocr_pipeline(o, md)
          IN /\ outcome' = o
             /\ processorLoads' = processorLoads + r.processorLoads
             /\ modelLoads' = modelLoads + r.modelLoads
             /\ IF r.exc
                THEN apc' = "idle" /\ fault' = "pipeline" /\ ocrResult' = ocrResult
                ELSE apc' = "line96" /\ fault' = fault /\ ocrResult' = r.val
    /\ UNCHANGED <<runs, uploaded, imagePane, textPane, download, cache>>
    /\ UNCHANGED marketVars

\* 94-96: st.markdown(result)
DisplayText ==
    /\ apc = "line96"
    /\ steps' = Append(steps, "display")
    /\ textPane' = [shown |-> TRUE, body |-> ocrResult]
    /\ apc' = "line99"
    /\ UNCHANGED <<runs, uploaded, outcome, ocrResult, imagePane, download,
                   fault, cache, processorLoads, modelLoads>>
    /\ UNCHANGED marketVars

\* 99-104: st.download_button(data=result)
OfferDownload ==
    /\ apc = "line99"
    /\ steps' = Append(steps, "download")
    /\ download' = [offered |-> TRUE, data |-> ocrResult]
    /\ apc' = "idle"
    /\ UNCHANGED <<runs, uploaded, outcome, ocrResult, imagePane, textPane,
                   fault, cache, processorLoads, modelLoads>>
    /\ UNCHANGED marketVars

OcrNext ==
    \/ ScriptRun
    \/ DecodeImage
    \/ RunPipeline
    \/ DisplayText
    \/ OfferDownload

\* ============================================================== specifications
Init == MarketInit /\ OcrInit

\* The tool server alone, and the front-end alone: two processes that share
\* nothing.
SpecMarket == Init /\ [][MarketNext]_vars
SpecOcr == Init /\ [][OcrNext]_vars

\* ===================================================================== claims
\* Some statement of lines 14-26 raises under the provider's answer r: the
\* Ticker constructor, history(), the read of the last close, the read of
\* info, or float() of a present regularMarketPrice.
AnyStepRaises(r) ==
    \/ r.tickerRaises
    \/ r.histRaises
    \/ r.data # <<>> /\ r.closeRaises
    \/ r.data = <<>> /\ r.infoRaises
    \/ r.data = <<>> /\ ~r.infoRaises /\ r.rmp.tag = "obj"

\* The request of the given operation has been handled and not yet answered.
Handled(name) == mpc = "done" /\ op = name

IsCall(e) == e.ev = "get_stock_price"
IsReturn(e) == e.ev = "return"
IsInfoRead(e) == e.ev = "info"
IsHistoryCall(e) == e.ev = "history"

\* C1: whenever a step of get_stock_price raises, the call returns exactly
\* -1.0 and no exception leaves it; this holds for the tool call and for the
\* lookups made by stock_resource and compare_stocks.
C1_RaiseReturnsSentinel ==
    /\ (Handled("get_stock_price") /\ AnyStepRaises(answer))
          => (~result.fault /\ result.kind = "float" /\ result.f = Sentinel)
    /\ (Handled("stock_resource") /\ AnyStepRaises(answer))
          => (~result.fault /\ price1 = Sentinel)
    /\ (op = "compare_stocks" /\ mpc = "line76" /\ AnyStepRaises(answer))
          => price1 = Sentinel
    /\ (op = "compare_stocks" /\ mpc \in {"line77", "done"} /\ AnyStepRaises(answer))
          => (~result.fault /\ price2 = Sentinel)

\* C1 witness: float() raised on a present regularMarketPrice and the tool
\* returned -1.0.
C1_Witness ==
    /\ Handled("get_stock_price")
    /\ answer.data = <<>> /\ answer.rmp = Obj
    /\ result = RetFloat(Sentinel)

\* C4: with a non-empty 1-day history and no raise, the returned price is >= 0.
C4_NonNegativeOnData ==
    (Handled("get_stock_price") /\ answer.data # <<>> /\ ~AnyStepRaises(answer))
        => FloatGe(result.f, Zero)

\* C5: the fallback order when nothing raises: the last close without reading
\* info when the history is non-empty; else the present regularMarketPrice (0
\* included) as it is; else -1.0.
C5_FallbackOrder ==
    (Handled("get_stock_price") /\ ~AnyStepRaises(answer)) =>
        /\ ~result.fault /\ result.kind = "float"
        /\ IF answer.data # <<>>
           THEN /\ result.f = answer.data[Len(answer.data)]
                /\ SelectSeq(log, IsInfoRead) = <<>>
           ELSE IF answer.rmp # None
           THEN /\ result.f = answer.rmp
                /\ SelectSeq(log, IsInfoRead) # <<>>
           ELSE result.f = Sentinel

\* C5 witness: empty history, regularMarketPrice 0, and 0 was returned.
C5_Witness ==
    /\ Handled("get_stock_price")
    /\ answer.data = <<>> /\ answer.rmp = Zero
    /\ result = RetFloat(Zero)

\* The three comparison sentences of compare_stocks for the current request.
IsHigher ==
    result.s = Higher(args.symbol1, price1, args.symbol2, price2)
IsLower ==
    result.s = Lower(args.symbol1, price1, args.symbol2, price2)
IsSame ==
    result.s = SamePrice(args.symbol1, price1, args.symbol2)
IsCompareError ==
    /\ result.s = CompareError(args.symbol1, args.symbol2)
    /\ BeginsWith(result.s, "Error:")
    /\ Contains(result.s, args.symbol1) /\ Contains(result.s, args.symbol2)

\* C3: compare_stocks returns the error string naming both symbols exactly
\* when one of the two lookups returned -1.0, and a comparison sentence for
\* every other pair of lookup results.
C3_ErrorIffSentinel ==
    Handled("compare_stocks") =>
        /\ ~result.fault
        /\ IsCompareError <=> (price1 = Sentinel \/ price2 = Sentinel)
        /\ ~IsCompareError => (IsHigher \/ IsLower \/ IsSame)

\* C6: for two prices other than -1.0 the sentence agrees with their order:
\* higher exactly when p1 > p2, lower exactly when p1 < p2, same exactly when
\* p1 = p2, exactly one of the three, symbol1 named first.
C6_SentenceMatchesOrder ==
    (Handled("compare_stocks") /\ price1 # Sentinel /\ price2 # Sentinel) =>
        /\ IsHigher <=> FloatGt(price1, price2)
        /\ IsLower <=> FloatLt(price1, price2)
        /\ IsSame <=> FloatEq(price1, price2)
        /\ IsHigher \/ IsLower \/ IsSame
        /\ result.s[IF IsSame THEN 2 ELSE 1] = Str(args.symbol1)

\* C8: the resource returns a string that begins with "Error:" and contains
\* the symbol when the lookup returned -1.0, and the price sentence for every
\* other lookup result.
C8_ResourceErrorIffSentinel ==
    Handled("stock_resource") =>
        /\ ~result.fault
        /\ IF price1 = Sentinel
           THEN /\ BeginsWith(result.s, "Error:")
                /\ Contains(result.s, args.symbol1)
           ELSE /\ result.s = ResourcePrice(args.symbol1, price1)
                /\ ~BeginsWith(result.s, "Error:")

\* The three kinds of string get_stock_history returns.
IsHistoryError == BeginsWith(result.s, "Error fetching historical data: ")
IsNoData ==
    /\ BeginsWith(result.s, "No historical data found for symbol '")
    /\ Contains(result.s, args.symbol1)
    /\ Contains(result.s, args.period)
IsCsv == Len(result.s) > 1 /\ result.s[1] = CsvHeader

\* C7: get_stock_history never lets an exception out and returns exactly one
\* of: an error message when a call raises, a no-data message with the symbol
\* and the period (and no CSV body) when the series is empty, the CSV text of
\* the series otherwise; the provider is asked for the period as given.
C7_HistoryOutcomes ==
    Handled("get_stock_history") =>
        /\ ~result.fault /\ result.kind = "str"
        /\ IF hanswer.tickerRaises \/ hanswer.histRaises \/ hanswer.csvRaises
           THEN IsHistoryError /\ ~IsNoData /\ ~IsCsv
           ELSE IF hanswer.data = <<>>
           THEN IsNoData /\ ~IsCsv /\ ~IsHistoryError
           ELSE result.s = ToCsv(hanswer.data) /\ IsCsv /\ ~IsNoData
                   /\ ~IsHistoryError
        /\ SelectSeq(log, IsHistoryCall) =
              IF hanswer.tickerRaises THEN <<>>
              ELSE <<Ev("history", args.symbol1, args.period)>>

\* C7 witness: an empty series for a period the provider does not know.
C7_Witness ==
    /\ Handled("get_stock_history")
    /\ hanswer.data = <<>> /\ ~hanswer.tickerRaises /\ ~hanswer.histRaises
    /\ args.period = "bogus"
    /\ result.s = NoDataMessage(args.symbol1, "bogus")

\* C9: compare_stocks makes exactly two lookups, symbol1 then symbol2, the
\* second entered after the first returned, also when the first returned
\* -1.0; price2 is decided by the second lookup's own answer alone.
C9_TwoSequentialLookups ==
    op = "compare_stocks" =>
        /\ mpc = "line75" => log = <<>>
        /\ mpc = "line76" =>
              /\ SelectSeq(log, IsCall) = <<Ev("get_stock_price", args.symbol1, "")>>
              /\ log[Len(log)] = Ev("return", args.symbol1, "")
        /\ mpc \in {"line77", "done"} =>
              /\ SelectSeq(log, IsCall) =
                    <<Ev("get_stock_price", args.symbol1, ""),
                      Ev("get_stock_price", args.symbol2, "")>>
              /\ SelectSeq(log, IsReturn) =
                    <<Ev("return", args.symbol1, ""),
                      Ev("return", args.symbol2, "")>>
              /\ \E i \in 2..(Len(log) - 1) :
                    /\ log[i] = Ev("return", args.symbol1, "")
                    /\ log[i + 1] = Ev("get_stock_price", args.symbol2, "")
                    /\ \A j \in 1..i : log[j].sym = args.symbol1
                    /\ \A j \in (i + 1)..Len(log) : log[j].sym = args.symbol2
              /\ price2 = GetStockPrice(args.symbol2, answer).ret

\* C9 witness: the first lookup failed and the second was made and succeeded.
C9_Witness ==
    /\ Handled("compare_stocks")
    /\ args.symbol1 # args.symbol2
    /\ price1 = Sentinel /\ price2 = Num(9)
    /\ Len(SelectSeq(log, IsCall)) = 2

\* C2: the processor and the model are loaded at most once in the process.
C2_LoadedAtMostOnce == processorLoads <= 1 /\ modelLoads <= 1

IsPrefix(s, u) == Len(s) <= Len(u) /\ \A i \in 1..Len(s) : s[i] = u[i]
AllSteps == <<"decode", "pipeline", "display", "download">>

\* C10: the steps of a run happen once each in the order decode, pipeline,
\* display, download; a failure of decoding or of the pipeline ends the run
\* unhandled with no extracted text and no download; after a successful
\* pipeline the download carries the displayed text; without an uploaded file
\* no step runs.
C10_LinearRunNoRetry ==
    /\ IsPrefix(steps, AllSteps)
    /\ uploaded = "none" =>
          /\ steps = <<>> /\ apc = "idle"
          /\ ~imagePane /\ ~textPane.shown /\ ~download.offered
    /\ (uploaded = "corrupt" /\ steps # <<>>) =>
          /\ steps = <<"decode">> /\ apc = "idle" /\ fault = "decode"
          /\ ~textPane.shown /\ ~download.offered
    /\ outcome \notin {"none", "ok"} =>
          /\ steps = <<"decode", "pipeline">> /\ apc = "idle"
          /\ fault = "pipeline"
          /\ ~textPane.shown /\ ~download.offered
    /\ textPane.shown => (outcome = "ok" /\ textPane.body = ocrResult)
    /\ download.offered =>
          (textPane.shown /\ download.data = textPane.body /\ steps = AllSteps)
    /\ (outcome = "ok" /\ apc = "idle") =>
          (fault = "none" /\ textPane.shown /\ download.offered)

\* C10 witness: the pipeline failed in generation and the run ended with
\* neither pane nor download.
C10_Witness ==
    /\ outcome = "generate_fails" /\ fault = "pipeline" /\ apc = "idle"
    /\ steps = <<"decode", "pipeline">>
    /\ ~textPane.shown /\ ~download.offered

====
